---- MODULE Spec2Model ----
(***************************************************************************)
(* The LaTeX resume parser (src/latex_parser.py), the identifier-mode edit  *)
(* engine and review step (src/app_v2_parser.py) and the line-mode edit     *)
(* engine (src/app.py) as state machines over one set of variables:         *)
(*   Spec         one batch taken record by record by apply_changes_by_id   *)
(*   LineSpec     generate_suggestions and apply_changes_by_line            *)
(*   AdapterSpec  generate_suggestions on the reply of the language model   *)
(*   ReviewSpec   step 3: Accept, Reject and Apply Changes                  *)
(*                                                                          *)
(* Documents are strings, exactly the Python strings of the program:       *)
(* offsets are Python's 0-based character offsets and spans are half-open. *)
(* A node identifier is the first 12 hex digits of the MD5 digest of a key  *)
(* text; the digest is modelled as an injective tag of the key, so two      *)
(* identifiers are equal exactly when their keys are equal.                 *)
(*                                                                          *)
(* The string primitives are functions, not operators: a function's        *)
(* arguments are evaluated once, before its body.                           *)
(***************************************************************************)
EXTENDS Integers, Sequences, FiniteSets, TLC

\* ------------------------------------------------------------------------
\* Python string primitives
\* ------------------------------------------------------------------------

Min2(a, b) == IF a <= b THEN a ELSE b

Max2(a, b) == IF a >= b THEN a ELSE b

\* s[a:b] with Python's clamping of both offsets to 0..len(s)
Slice[s \in STRING, a \in Int, b \in Int] ==
  IF Min2(Max2(a, 0), Len(s)) >= Min2(Max2(b, 0), Len(s)) THEN ""
  ELSE SubSeq(s, Min2(Max2(a, 0), Len(s)) + 1, Min2(Max2(b, 0), Len(s)))

\* s[a:]
SliceFrom[s \in STRING, a \in Int] == Slice[s, a, Len(s)]

\* s.startswith(lit, i), for a non-empty lit (the first character is compared
\* first, so that a substring is cut only where the literal may begin)
StartsAt[s \in STRING, lit \in STRING, i \in Int] ==
  /\ i >= 0
  /\ i + Len(lit) <= Len(s)
  /\ SubSeq(s, i + 1, i + 1) = SubSeq(lit, 1, 1)
  /\ SubSeq(s, i + 1, i + Len(lit)) = lit

\* the least element of a non-empty set of integers, -1 for the empty set
Least[hits \in SUBSET Int] ==
  IF hits = {} THEN -1 ELSE CHOOSE k \in hits : \A h \in hits : k <= h

\* s.find(lit, i): the lowest offset >= i where lit occurs, or -1
Find[s \in STRING, lit \in STRING, i \in Int] ==
  Least[{k \in Max2(i, 0)..(Len(s) - Len(lit)) : StartsAt[s, lit, k]}]

\* lit in s
Contains[s \in STRING, lit \in STRING] == Find[s, lit, 0] >= 0

IsSpace(c) == c \in {" ", "\n", "\t", "\r"}

\* the offset of the first non-whitespace character at or after i (regex \s*)
SkipSpace[s \in STRING, i \in Int] ==
  IF i < Len(s) /\ IsSpace(SubSeq(s, i + 1, i + 1)) THEN SkipSpace[s, i + 1] ELSE i

\* the offset after the last non-whitespace character before j, not below i
SkipSpaceBack[s \in STRING, i \in Int, j \in Int] ==
  IF j > i /\ IsSpace(SubSeq(s, j, j)) THEN SkipSpaceBack[s, i, j - 1] ELSE j

\* s.strip()
Strip[s \in STRING] == Slice[s, SkipSpace[s, 0], SkipSpaceBack[s, SkipSpace[s, 0], Len(s)]]

\* s.replace(ch, rep) for a one-character ch, done on the first n characters
ReplaceUpTo[s \in STRING, ch \in STRING, rep \in STRING, n \in Nat] ==
  IF n = 0 THEN ""
  ELSE ReplaceUpTo[s, ch, rep, n - 1]
       \o (IF SubSeq(s, n, n) = ch THEN rep ELSE SubSeq(s, n, n))

\* s.replace(ch, rep) for a one-character ch
Replace[s \in STRING, ch \in STRING, rep \in STRING] == ReplaceUpTo[s, ch, rep, Len(s)]

\* ------------------------------------------------------------------------
\* The regular expressions of the parser.  A match is a record with the
\* half-open range start..end and the captured groups; end = -1 is no match.
\* ------------------------------------------------------------------------

NoMatch == [start |-> -1, end |-> -1, groups |-> <<>>]

\* \{([^}]+)\} at offset i: the offset of the closing brace, or -1
BraceArg[s \in STRING, i \in Int] ==
  IF ~StartsAt[s, "{", i] \/ Find[s, "}", i + 1] < i + 2 THEN -1
  ELSE Find[s, "}", i + 1]

\* r'\\section\{([^}]+)\}' at offset i
section_pattern[s \in STRING, i \in Int] ==
  LET lit == "\\section"
      c == BraceArg[s, i + Len(lit)]
  IN IF ~StartsAt[s, lit, i] \/ c = -1 THEN NoMatch
     ELSE [start |-> i, end |-> c + 1,
           groups |-> <<Slice[s, i + Len(lit) + 1, c]>>]

\* r'\\resumeSubheading\s*\{([^}]+)\}\{([^}]+)\}\{([^}]+)\}\{([^}]+)\}' at offset i
subheading_pattern[s \in STRING, i \in Int] ==
  LET lit == "\\resumeSubheading"
      a1 == SkipSpace[s, i + Len(lit)]
      c1 == BraceArg[s, a1]
      c2 == IF c1 = -1 THEN -1 ELSE BraceArg[s, c1 + 1]
      c3 == IF c2 = -1 THEN -1 ELSE BraceArg[s, c2 + 1]
      c4 == IF c3 = -1 THEN -1 ELSE BraceArg[s, c3 + 1]
  IN IF ~StartsAt[s, lit, i] \/ c4 = -1 THEN NoMatch
     ELSE [start |-> i, end |-> c4 + 1,
           groups |-> <<Slice[s, a1 + 1, c1], Slice[s, c1 + 2, c2],
                        Slice[s, c2 + 2, c3], Slice[s, c3 + 2, c4]>>]

\* r'\\resumeProjectHeading\s*\{\\textbf\{([^}]+)\}[^}]*\}\{([^}]+)\}' at offset i
project_pattern[s \in STRING, i \in Int] ==
  LET lit == "\\resumeProjectHeading"
      a1 == SkipSpace[s, i + Len(lit)]
      tb == "{\\textbf"
      c1 == IF StartsAt[s, tb, a1] THEN BraceArg[s, a1 + Len(tb)] ELSE -1
      c2 == IF c1 = -1 THEN -1 ELSE Find[s, "}", c1 + 1]
      c3 == IF c2 = -1 THEN -1 ELSE BraceArg[s, c2 + 1]
  IN IF ~StartsAt[s, lit, i] \/ c3 = -1 THEN NoMatch
     ELSE [start |-> i, end |-> c3 + 1,
           groups |-> <<Slice[s, a1 + Len(tb) + 1, c1], Slice[s, c2 + 2, c3]>>]

\* r'\\textbf\{([^}]+)\}\{:\s*([^}]+)\}' at offset i; \s* gives one character
\* back when the value is all whitespace
skills_pattern[s \in STRING, i \in Int] ==
  LET lit == "\\textbf"
      c1 == BraceArg[s, i + Len(lit)]
      v == c1 + 3
      c2 == IF c1 # -1 /\ StartsAt[s, "{:", c1 + 1] THEN Find[s, "}", v] ELSE -1
      g == SkipSpace[s, v]
  IN IF ~StartsAt[s, lit, i] \/ c2 < v + 1 THEN NoMatch
     ELSE [start |-> i, end |-> c2 + 1,
           groups |-> <<Slice[s, i + Len(lit) + 1, c1],
                        Slice[s, IF g >= c2 THEN c2 - 1 ELSE g, c2]>>]

\* the offset of the first brace, opening or closing, at or after i, or -1
NextBrace[s \in STRING, i \in Int] ==
  Least[{k \in {Find[s, "{", i], Find[s, "}", i]} : k # -1}]

\* (?:[^{}]|\{[^{}]*\})*\} from offset i: the offset of the closing brace, or -1
ItemBody[s \in STRING, i \in Int] ==
  LET b == NextBrace[s, i]
      inner == NextBrace[s, b + 1]
  IN IF b = -1 THEN -1
     ELSE IF StartsAt[s, "}", b] THEN b
     ELSE IF inner = -1 \/ StartsAt[s, "{", inner] THEN -1
     ELSE ItemBody[s, inner + 1]

\* [^}]*\} from offset i: the offset of the first closing brace, or -1
first_closing_brace(s, i) == Find[s, "}", i]

\* the end of the argument of the item pattern: groups of braces are stepped
\* over
item_argument_end(s, i) == ItemBody[s, i]

\* r'\\resumeItem\{((?:[^{}]|\{[^{}]*\})*)\}' at offset i
item_pattern[s \in STRING, i \in Int] ==
  LET lit == "\\resumeItem{"
      c == item_argument_end(s, i + Len(lit))
  IN IF ~StartsAt[s, lit, i] \/ c = -1 THEN NoMatch
     ELSE [start |-> i, end |-> c + 1, groups |-> <<Slice[s, i + Len(lit), c]>>]

\* r'\\textbf\{([^}]+)\}' at offset i
category_pattern[s \in STRING, i \in Int] ==
  LET lit == "\\textbf"
      c == BraceArg[s, i + Len(lit)]
  IN IF ~StartsAt[s, lit, i] \/ c = -1 THEN NoMatch
     ELSE [start |-> i, end |-> c + 1,
           groups |-> <<Slice[s, i + Len(lit) + 1, c]>>]

\* the pattern named kind, tried at offset i
Match[kind \in STRING, s \in STRING, i \in Int] ==
  CASE kind = "section" -> section_pattern[s, i]
    [] kind = "subheading" -> subheading_pattern[s, i]
    [] kind = "project" -> project_pattern[s, i]
    [] kind = "skills" -> skills_pattern[s, i]
    [] kind = "item" -> item_pattern[s, i]
    [] kind = "category" -> category_pattern[s, i]

\* the literal every match of the pattern named kind begins with
Literal(kind) ==
  CASE kind = "section" -> "\\section{"
    [] kind = "subheading" -> "\\resumeSubheading"
    [] kind = "project" -> "\\resumeProjectHeading"
    [] kind = "skills" -> "\\textbf{"
    [] kind = "item" -> "\\resumeItem{"
    [] kind = "category" -> "\\textbf{"

\* the matches of the pattern named kind from the candidate offset i on, where
\* i is an offset of the pattern's literal, or -1 when there is none left
MatchesFrom[kind \in STRING, s \in STRING, i \in Int] ==
  IF i = -1 THEN <<>>
  ELSE IF Match[kind, s, i].end = -1
  THEN MatchesFrom[kind, s, Find[s, Literal(kind), i + 1]]
  ELSE <<Match[kind, s, i]>>
       \o MatchesFrom[kind, s, Find[s, Literal(kind), Match[kind, s, i].end]]

\* list(re.finditer(pattern, s)): the non-overlapping matches, leftmost first
FindIter[kind \in STRING, s \in STRING] == MatchesFrom[kind, s, Find[s, Literal(kind), 0]]

\* the concatenation of a sequence of sequences
Concat(seqs) ==
  LET upto[k \in 0..Len(seqs)] == IF k = 0 THEN <<>> ELSE upto[k - 1] \o seqs[k]
  IN upto[Len(seqs)]

\* ------------------------------------------------------------------------
\* LaTeXResumeParser.  Each parse function returns the tree node it builds
\* and, in regs, the writes it makes to id_to_position, in program order.
\* A node's field span is the range computed for it when it was discovered.
\*
\* A local of the program that is computed once and used many times is bound
\* as  The({ body : local \in {value} }),  which evaluates value once.
\* ------------------------------------------------------------------------

The(S) == CHOOSE v \in S : TRUE

BulletKeyLen == 30

\* hashlib.md5(text.encode()).hexdigest()[:12]
generate_id(text) == "md5:" \o text

Reg(node) == [id |-> node.id, span |-> node.span]

Regs(nodes) == [k \in 1..Len(nodes) |-> Reg(nodes[k])]

\* _parse_resume_items
parse_resume_items(content, start_pos) ==
  LET Bullet(match) ==
        The({ [id |-> generate_id("bullet_" \o Slice[bullet_text, 0, BulletKeyLen]),
               text |-> bullet_text,
               span |-> <<start_pos + match.start, start_pos + match.end>>]
              : bullet_text \in {Strip[match.groups[1]]} })
  IN The({ [k \in 1..Len(item_matches) |-> Bullet(item_matches[k])]
           : item_matches \in {FindIter["item", content]} })

\* the bullets of the entry whose heading match ends at match_end, and the
\* offset list_end_pos found for it (lines 100-108 and 147-154)
entry_bullets(content, start_pos, match_end) ==
  The({ [list_end_pos |-> list_end_pos,
         bullets |->
           IF list_start_pos > 0 /\ list_end_pos > list_start_pos
           THEN parse_resume_items(Slice[content, list_start_pos, list_end_pos],
                                   start_pos + list_start_pos)
           ELSE <<>>]
        : list_start_pos \in {Find[content, "\\resumeItemListStart", match_end]},
          list_end_pos \in {Find[content, "\\resumeItemListEnd", match_end]} })

\* _parse_experience_section
parse_experience_section(content, start_pos, section_name) ==
  LET Item(match) ==
        The({ [id |-> generate_id(Strip[match.groups[2]] \o "_" \o Strip[match.groups[1]]),
               title |-> Strip[match.groups[1]], company |-> Strip[match.groups[2]],
               dates |-> Strip[match.groups[3]], location |-> Strip[match.groups[4]],
               bullets |-> found.bullets,
               span |-> <<start_pos + match.start,
                          start_pos + (IF found.list_end_pos > 0 THEN found.list_end_pos
                                       ELSE match.end)>>]
              : found \in {entry_bullets(content, start_pos, match.end)} })
      Items(subheading_matches) ==
        [k \in 1..Len(subheading_matches) |-> Item(subheading_matches[k])]
  IN The({ [node |-> [id |-> generate_id("section_" \o section_name),
                      type |-> "experience", name |-> section_name, items |-> items],
            regs |-> Concat([k \in 1..Len(items) |->
                               Regs(items[k].bullets) \o <<Reg(items[k])>>])]
           : items \in {Items(FindIter["subheading", content])} })

\* _parse_projects_section
parse_projects_section(content, start_pos, section_name) ==
  LET Item(match) ==
        The({ [id |-> generate_id("project_" \o Strip[match.groups[1]]),
               name |-> Strip[match.groups[1]], technologies |-> Strip[match.groups[2]],
               bullets |-> found.bullets,
               span |-> <<start_pos + match.start,
                          start_pos + (IF found.list_end_pos > 0 THEN found.list_end_pos
                                       ELSE match.end)>>]
              : found \in {entry_bullets(content, start_pos, match.end)} })
      Items(project_matches) ==
        [k \in 1..Len(project_matches) |-> Item(project_matches[k])]
  IN The({ [node |-> [id |-> generate_id("section_" \o section_name),
                      type |-> "projects", name |-> section_name, items |-> items],
            regs |-> Concat([k \in 1..Len(items) |->
                               Regs(items[k].bullets) \o <<Reg(items[k])>>])]
           : items \in {Items(FindIter["project", content])} })

\* _parse_skills_section
parse_skills_section(content, start_pos, section_name) ==
  LET Cat(match) ==
        [id |-> generate_id("skill_" \o Strip[match.groups[1]]),
         category |-> Strip[match.groups[1]], items |-> Strip[match.groups[2]],
         span |-> <<start_pos + match.start, start_pos + match.end>>]
      Cats(skills_matches) == [k \in 1..Len(skills_matches) |-> Cat(skills_matches[k])]
  IN The({ [node |-> [id |-> generate_id("section_" \o section_name),
                      type |-> "skills", name |-> section_name,
                      categories |-> categories],
            regs |-> Regs(categories)]
           : categories \in {Cats(FindIter["skills", content])} })

\* _parse_education_section
parse_education_section(content, start_pos, section_name) ==
  LET Item(match) ==
        [id |-> generate_id("edu_" \o Strip[match.groups[2]]),
         degree |-> Strip[match.groups[1]], school |-> Strip[match.groups[2]],
         dates |-> Strip[match.groups[3]], location |-> Strip[match.groups[4]],
         span |-> <<start_pos + match.start, start_pos + match.end>>]
      Items(edu_matches) == [k \in 1..Len(edu_matches) |-> Item(edu_matches[k])]
  IN The({ [node |-> [id |-> generate_id("section_" \o section_name),
                      type |-> "education", name |-> section_name, items |-> items],
            regs |-> Regs(items)]
           : items \in {Items(FindIter["subheading", content])} })

\* _parse_generic_section
parse_generic_section(content, start_pos, section_name) ==
  [node |-> [id |-> generate_id("section_" \o section_name), type |-> "generic",
             name |-> section_name, content |-> content],
   regs |-> <<>>]

\* the dispatch of _extract_sections on the section's name (lines 62-73)
parse_section(section_content, section_start, section_name) ==
  IF section_name \in {"Work Experience", "Experience", "Professional Experience"}
  THEN parse_experience_section(section_content, section_start, section_name)
  ELSE IF section_name \in {"Projects", "Personal Projects"}
  THEN parse_projects_section(section_content, section_start, section_name)
  ELSE IF section_name = "Skills"
  THEN parse_skills_section(section_content, section_start, section_name)
  ELSE IF section_name = "Education"
  THEN parse_education_section(section_content, section_start, section_name)
  ELSE parse_generic_section(section_content, section_start, section_name)

\* the end of the range of the section at position i of section_matches
\* (lines 52-58)
section_end(text, section_matches, i) ==
  IF i + 1 <= Len(section_matches) THEN section_matches[i + 1].start
  ELSE The({ IF end_doc > 0 THEN end_doc ELSE Len(text)
             : end_doc \in {Find[text, "\\end{document}", 0]} })

\* _extract_sections: the parsed sections in document order, each with the
\* range section_start..section_end its content was cut from
extract_sections(text) ==
  LET Section(match, end) ==
        The({ [node |-> parsed.node @@ [span |-> <<match.start, end>>],
               regs |-> parsed.regs]
              : parsed \in {The({ parse_section(section_content, match.start,
                                                match.groups[1])
                                  : section_content \in {Slice[text, match.start, end]} })} })
  IN The({ [i \in 1..Len(section_matches) |->
              The({ Section(section_matches[i], end)
                    : end \in {section_end(text, section_matches, i)} })]
           : section_matches \in {FindIter["section", text]} })

\* id_to_position after the writes regs, made in order: the last write to an
\* identifier is the one that stays
Registered(regs) ==
  [x \in {regs[k].id : k \in DOMAIN regs} |->
     regs[CHOOSE k \in DOMAIN regs :
            /\ regs[k].id = x
            /\ \A j \in DOMAIN regs : regs[j].id = x => j <= k].span]

EmptyIndex == [x \in {} |-> <<0, 0>>]

\* parse(): the tree's sections and id_to_position
parse(text) ==
  The({ [sections |-> [i \in 1..Len(parsed) |-> parsed[i].node],
         id_to_position |->
           The({ Registered(regs)
                 : regs \in {Concat([i \in 1..Len(parsed) |-> parsed[i].regs])} })]
        : parsed \in {extract_sections(text)} })

\* ------------------------------------------------------------------------
\* The uploaded documents
\* ------------------------------------------------------------------------

Preamble == "\\documentclass{article}\n\\begin{document}\n"

EndDocument == "\\end{document}\n"

\* one entry with a list of two bullets
Experience ==
  "\\section{Experience}\n\\resumeSubheading{Dev}{Acme}{2024}{Remote}\n"
  \o "\\resumeItemListStart\n\\resumeItem{Built a}\n\\resumeItem{Ran b}\n\\resumeItemListEnd\n"

\* an entry with no list, then a sibling with one
ExperienceNoList ==
  "\\section{Work Experience}\n\\resumeSubheading{Dev}{Acme}{2024}{Remote}\n"
  \o "\\resumeSubheading{QA}{Bolt}{2023}{NYC}\n"
  \o "\\resumeItemListStart\n\\resumeItem{Ran b}\n\\resumeItemListEnd\n"

\* a bullet with one level of nested braces
ExperienceNested ==
  "\\section{Experience}\n\\resumeSubheading{Dev}{Acme}{2024}{Remote}\n"
  \o "\\resumeItemListStart\n\\resumeItem{Built a \\textbf{big} app}\n\\resumeItemListEnd\n"

Projects ==
  "\\section{Projects}\n\\resumeProjectHeading{\\textbf{Bot} $|$ Go}{2022}\n"
  \o "\\resumeItemListStart\n\\resumeItem{Made c}\n\\resumeItemListEnd\n"

\* a project whose bullet has the text of a bullet of Experience
ProjectsSameBullet ==
  "\\section{Projects}\n\\resumeProjectHeading{\\textbf{Bot} $|$ Go}{2022}\n"
  \o "\\resumeItemListStart\n\\resumeItem{Ran b}\n\\resumeItemListEnd\n"

Skills == "\\section{Skills}\n\\textbf{Lang}{: Go, C}\n\\textbf{Cloud}{: AWS}\n"

Education == "\\section{Education}\n\\resumeSubheading{BSc}{MIT}{2020}{Boston}\n"

Summary == "\\section{Summary}\nEngineer\n"

\* a comment line ahead of the document class
Header == "% cv\n"

Documents ==
  { Preamble \o Experience \o Skills \o EndDocument,
    Preamble \o Skills \o Experience,
    Preamble \o ExperienceNoList \o Summary \o EndDocument,
    Preamble \o ExperienceNested \o Education \o EndDocument,
    Preamble \o Experience \o ProjectsSameBullet \o EndDocument,
    Preamble \o Summary \o Projects \o EndDocument \o Summary,
    Header \o Preamble \o Skills \o EndDocument,
    Skills }

\* ------------------------------------------------------------------------
\* The edit engine
\* ------------------------------------------------------------------------

\* escape_latex: the replacements of the dict, one after the other in its order
escape_latex(text) ==
  LET t1 == Replace[text, "%", "\\%"]
      t2 == Replace[t1, "$", "\\$"]
      t3 == Replace[t2, "#", "\\#"]
      t4 == Replace[t3, "_", "\\_"]
      t5 == Replace[t4, "&", "\\&"]
      t6 == Replace[t5, "{", "\\{"]
      t7 == Replace[t6, "}", "\\}"]
      t8 == Replace[t7, "~", "\\textasciitilde{}"]
      t9 == Replace[t8, "^", "\\textasciicircum{}"]
  IN Replace[t9, "\\", "\\textbackslash{}"]

\* escape_latex of app.py: an empty text is returned as it is, and the
\* backslash is the first key of the dict
escape_latex_app(text) ==
  IF text = "" THEN text
  ELSE LET t0 == Replace[text, "\\", "\\textbackslash{}"]
           t1 == Replace[t0, "%", "\\%"]
           t2 == Replace[t1, "$", "\\$"]
           t3 == Replace[t2, "#", "\\#"]
           t4 == Replace[t3, "_", "\\_"]
           t5 == Replace[t4, "&", "\\&"]
           t6 == Replace[t5, "{", "\\{"]
           t7 == Replace[t6, "}", "\\}"]
           t8 == Replace[t7, "~", "\\textasciitilde{}"]
       IN Replace[t8, "^", "\\textasciicircum{}"]

\* the result of a call that either raises ValueError or returns a text
Raised == [raised |-> TRUE, text |-> ""]

Returned(text) == [raised |-> FALSE, text |-> text]

\* the element a modify writes in place of old_element
new_element(old_element, new_text) ==
  IF Contains[old_element, "\\resumeItem{"]
  THEN "\\resumeItem{" \o new_text \o "}"
  ELSE IF Contains[old_element, "\\textbf{"]
  THEN LET category_match == FindIter["category", old_element]
       IN IF category_match # <<>>
          THEN "\\textbf{" \o category_match[1].groups[1] \o "}{: " \o new_text \o "}"
          ELSE new_text
  ELSE new_text

\* LaTeXResumeParser.apply_edit_by_id on a parser holding content and index
apply_edit_by_id(content, index, element_id, action, new_text) ==
  IF element_id \notin DOMAIN index THEN Raised
  ELSE LET start_pos == index[element_id][1]
           end_pos == index[element_id][2]
       IN IF action = "remove"
          THEN Returned(Slice[content, 0, start_pos] \o SliceFrom[content, end_pos])
          ELSE IF action = "modify"
          THEN Returned(Slice[content, 0, start_pos]
                        \o new_element(Slice[content, start_pos, end_pos], new_text)
                        \o SliceFrom[content, end_pos])
          ELSE Returned(content)

\* add_bullet_to_element
add_bullet_to_element(content, parent_id, bullet_text, index) ==
  IF parent_id \notin DOMAIN index THEN Raised
  ELSE LET start_pos == index[parent_id][1]
           end_pos == index[parent_id][2]
           parent_content == Slice[content, start_pos, end_pos]
           list_end_pos == Find[parent_content, "\\resumeItemListEnd", 0]
           new_bullet == "\n        \\resumeItem{" \o bullet_text \o "}"
           absolute_insert_pos == start_pos + list_end_pos
       IN IF list_end_pos < 0 THEN Raised
          ELSE Returned(Slice[content, 0, absolute_insert_pos] \o new_bullet
                        \o "\n      " \o SliceFrom[content, absolute_insert_pos])

\* the body of the try of one iteration of the loop of apply_changes_by_id
apply_suggestion(content, index, modified, suggestion) ==
  LET suggested_text ==
        IF suggestion.suggested_text # "" THEN escape_latex(suggestion.suggested_text) ELSE ""
  IN IF suggestion.action = "add_to"
     THEN add_bullet_to_element(modified, suggestion.element_id, suggested_text, index)
     ELSE IF suggestion.action = "modify"
     THEN apply_edit_by_id(content, index, suggestion.element_id, "modify", suggested_text)
     ELSE IF suggestion.action = "remove"
     THEN apply_edit_by_id(content, index, suggestion.element_id, "remove", "")
     ELSE Returned(modified)

\* what changes_made records for an applied suggestion
Change(suggestion) ==
  IF suggestion.action \in {"add_to", "modify", "remove"}
  THEN <<[action |-> suggestion.action, element_id |-> suggestion.element_id]>>
  ELSE <<>>

\* ------------------------------------------------------------------------
\* The nodes of a tree
\* ------------------------------------------------------------------------

\* the entries of a section (none for skills and generic sections)
Entries(sec) == IF sec.type \in {"experience", "projects", "education"} THEN sec.items ELSE <<>>

\* the skill categories of a section
Categories(sec) == IF sec.type = "skills" THEN sec.categories ELSE <<>>

\* the bullets of an entry (education entries have none)
Bullets(entry) == IF "bullets" \in DOMAIN entry THEN entry.bullets ELSE <<>>

\* every node of the tree t: its kind, the type of its section, its path from
\* the root, its id and its span
Nodes(t) ==
  { [kind |-> "section", type |-> t[s].type, path |-> <<s>>, id |-> t[s].id,
     span |-> t[s].span] : s \in DOMAIN t }
  \cup UNION { { [kind |-> "entry", type |-> t[s].type, path |-> <<s, e>>,
                  id |-> Entries(t[s])[e].id, span |-> Entries(t[s])[e].span]
                 : e \in DOMAIN Entries(t[s]) } : s \in DOMAIN t }
  \cup UNION { { [kind |-> "category", type |-> t[s].type, path |-> <<s, c>>,
                  id |-> Categories(t[s])[c].id, span |-> Categories(t[s])[c].span]
                 : c \in DOMAIN Categories(t[s]) } : s \in DOMAIN t }
  \cup UNION { UNION { { [kind |-> "bullet", type |-> t[s].type, path |-> <<s, e, b>>,
                          id |-> Bullets(Entries(t[s])[e])[b].id,
                          span |-> Bullets(Entries(t[s])[e])[b].span]
                         : b \in DOMAIN Bullets(Entries(t[s])[e]) }
                       : e \in DOMAIN Entries(t[s]) } : s \in DOMAIN t }

\* ------------------------------------------------------------------------
\* The session: upload and parse, then one batch of approved suggestions
\* ------------------------------------------------------------------------

MaxBatch == 2

\* an identifier the parser never issued
FabricatedId == "md5:fabricated"

\* an action the engine has no branch for
UnknownAction == "replace"

\* the replacement texts of the suggestions
Texts == {"Led QA", "Cut costs by 5% for all"}

\* the suggestions a generator shown the outline of tree t may return
Suggestions(t) ==
  LET ids == {n.id : n \in Nodes(t)} \cup {FabricatedId}
  IN { [element_id |-> id, action |-> "remove", suggested_text |-> ""] : id \in ids }
     \cup { [element_id |-> id, action |-> a, suggested_text |-> txt]
              : id \in ids, a \in {"modify", "add_to"}, txt \in Texts }
     \cup { [element_id |-> id, action |-> UnknownAction, suggested_text |-> "Led QA"]
              : id \in ids }

Batches(t) == UNION { [1..n -> Suggestions(t)] : n \in 1..MaxBatch }

\* the records of a batch of identifier mode
SuggestionRecords == [element_id : STRING, action : STRING, suggested_text : STRING]

\* a value that may be None: <<text>>, or <<>> for None (a line of the line
\* array once marked for removal, the failure value of a function)
Str(text) == <<text>>

None == <<>>

\* generate_suggestions has not been called
NotAsked == [mode |-> "", failed |-> FALSE, empty |-> TRUE, retried |-> FALSE]

VARIABLES
  pc,                   \* "init", "parsed", "applying", "returned"
  original,             \* the text the parser was constructed with
  latex_content,        \* parser.latex_content
  tree,                 \* parser.tree['sections']
  id_to_position,       \* parser.id_to_position
  approved_suggestions, \* the batch handed to apply_changes_by_id
  next,                 \* the position of its loop in the batch
  modified_resume,      \* its local modified_resume
  changes_made,         \* its local changes_made
  warnings,             \* the element ids of its "Could not find element" log entries
  applied_spans,        \* the span each applied suggestion was resolved to, in order
  record_log,           \* per record of the loop, the level of the log entry it left
  final_latex,          \* st.session_state.final_latex
  suggestions,          \* line mode: what generate_suggestions returned
  filtered,             \* line mode: how many suggestions it filtered out
  caller,               \* line mode: who entered apply_changes_by_line
  lines,                \* line mode: the line array of apply_changes_by_line
  sorted_suggestions,   \* line mode: its sorted_suggestions
  processed_lines,      \* line mode: the line numbers its loop has taken, in order
  response,             \* the reply of the language model generate_suggestions got
  adapted,              \* what generate_suggestions made of it, and in which mode
  presses,              \* review: how often Apply Changes has been pressed
  returned              \* review: what apply_changes_by_id returned to step 3

line_vars == <<suggestions, filtered, caller, lines, sorted_suggestions, processed_lines>>

adapter_vars == <<response, adapted>>

review_vars == <<presses, returned>>

vars == <<pc, original, latex_content, tree, id_to_position, approved_suggestions,
          next, modified_resume, changes_made, warnings, applied_spans, record_log,
          final_latex, line_vars, adapter_vars, review_vars>>

\* LaTeXResumeParser.__init__ on an uploaded document
Init ==
  /\ pc = "init"
  /\ original \in Documents
  /\ latex_content = original
  /\ tree = <<>>
  /\ id_to_position = EmptyIndex
  /\ approved_suggestions = <<>>
  /\ next = 1
  /\ modified_resume = ""
  /\ changes_made = <<>>
  /\ warnings = <<>>
  /\ applied_spans = <<>>
  /\ record_log = <<>>
  /\ final_latex = ""
  /\ suggestions = <<>>
  /\ filtered = 0
  /\ caller = ""
  /\ lines = <<>>
  /\ sorted_suggestions = <<>>
  /\ processed_lines = <<>>
  /\ response = ""
  /\ adapted = NotAsked
  /\ presses = 0
  /\ returned = None

\* LaTeXResumeParser.parse
Parse ==
  /\ pc = "init"
  /\ pc' = "parsed"
  /\ \E parsed \in {parse(latex_content)} :
       /\ tree' = parsed.sections
       /\ id_to_position' = parsed.id_to_position
  /\ UNCHANGED <<original, latex_content, approved_suggestions, next, modified_resume,
                 changes_made, warnings, applied_spans, record_log, final_latex,
                 line_vars, adapter_vars, review_vars>>

\* apply_changes_by_id is entered with the approved suggestions
StartApply ==
  /\ pc = "parsed"
  /\ \E batch \in Batches(tree) : approved_suggestions' = batch
  /\ pc' = "applying"
  /\ next' = 1
  /\ modified_resume' = latex_content
  /\ changes_made' = <<>>
  /\ UNCHANGED <<original, latex_content, tree, id_to_position, warnings, applied_spans,
                 record_log, final_latex, line_vars, adapter_vars, review_vars>>

\* one iteration of its loop
ApplySuggestion ==
  /\ pc = "applying"
  /\ next <= Len(approved_suggestions)
  /\ \E suggestion \in {approved_suggestions[next]} :
     \E result \in {apply_suggestion(latex_content, id_to_position, modified_resume,
                                     suggestion)} :
        /\ next' = next + 1
        /\ IF result.raised
           THEN /\ warnings' = Append(warnings, suggestion.element_id)
                /\ record_log' = Append(record_log, "warning")
                /\ UNCHANGED <<modified_resume, latex_content, changes_made, applied_spans>>
           ELSE /\ modified_resume' = result.text
                /\ latex_content' = result.text
                /\ changes_made' = changes_made \o Change(suggestion)
                /\ applied_spans' =
                     IF Change(suggestion) # <<>>
                     THEN Append(applied_spans, id_to_position[suggestion.element_id])
                     ELSE applied_spans
                /\ record_log' = Append(record_log, IF Change(suggestion) # <<>>
                                                    THEN "success" ELSE "none")
                /\ UNCHANGED warnings
  /\ UNCHANGED <<pc, original, tree, id_to_position, approved_suggestions, final_latex,
                 line_vars, adapter_vars, review_vars>>

\* the loop is over: apply_changes_by_id returns modified_resume, and step 3
\* keeps it as the final document when it is not empty
ReturnModified ==
  /\ pc = "applying"
  /\ next > Len(approved_suggestions)
  /\ pc' = "returned"
  /\ final_latex' = IF modified_resume # "" THEN modified_resume ELSE final_latex
  /\ UNCHANGED <<original, latex_content, tree, id_to_position, approved_suggestions,
                 next, modified_resume, changes_made, warnings, applied_spans, record_log,
                 line_vars, adapter_vars, review_vars>>

Next == Parse \/ StartApply \/ ApplySuggestion \/ ReturnModified

Spec == Init /\ [][Next]_vars

\* ------------------------------------------------------------------------
\* Line mode (app.py): suggestions by line number, no parser
\* ------------------------------------------------------------------------

\* the offsets of the line feeds of s
LineFeeds[s \in STRING] == {k \in 0..(Len(s) - 1) : StartsAt[s, "\n", k]}

\* the j-th smallest of the offsets feeds; -1 for j = 0, len past the last
LineFeed[feeds \in SUBSET Int, len \in Nat, j \in Nat] ==
  IF j = 0 THEN -1
  ELSE IF j > Cardinality(feeds) THEN len
  ELSE The({k \in feeds : Cardinality({m \in feeds : m < k}) = j - 1})

\* latex_resume.split('\n')
Split[s \in STRING] ==
  The({ [j \in 1..(Cardinality(feeds) + 1)
           |-> Slice[s, LineFeed[feeds, Len(s), j - 1] + 1, LineFeed[feeds, Len(s), j]]]
        : feeds \in {LineFeeds[s]} })

\* '\n'.join(seq)
JoinUpTo[seq \in Seq(STRING), n \in Nat] ==
  IF n = 0 THEN ""
  ELSE IF n = 1 THEN seq[1]
  ELSE JoinUpTo[seq, n - 1] \o "\n" \o seq[n]

Join(seq) == JoinUpTo[seq, Len(seq)]

\* sorted(approved_suggestions, key=line_number, reverse=True): descending,
\* records of equal line number in their order of the batch
SortedPosition(batch, k) ==
  1 + Cardinality({j \in DOMAIN batch : batch[j].line_number > batch[k].line_number})
    + Cardinality({j \in DOMAIN batch : j < k /\ batch[j].line_number = batch[k].line_number})

\* the batch taken in the order it came in
unsorted(batch) == batch

sorted_by_line(batch) ==
  [p \in DOMAIN batch |-> batch[The({k \in DOMAIN batch : SortedPosition(batch, k) = p})]]

\* the array without its None entries
WithoutNone(array) ==
  LET kept == {k \in DOMAIN array : array[k] # None}
  IN [p \in 1..Cardinality(kept)
        |-> array[The({k \in kept : Cardinality({m \in kept : m <= k}) = p})][1]]

\* step 3 removes any text before \documentclass
trim_to_documentclass(final) ==
  LET match == Find[final, "\\documentclass", 0]
  IN IF match >= 0 THEN SliceFrom[final, match] ELSE final

\* the line numbers, texts and actions a generator may return
LineNumbers == {0, 1, 3, 5, 99}

LineTexts == {"", "  \\resumeItem{Led QA}"}

RawSuggestions ==
  { [line_number |-> n, action |-> "modify", suggested_text |-> txt]
      : n \in LineNumbers, txt \in LineTexts }
  \cup { [line_number |-> n, action |-> a, suggested_text |-> ""]
           : n \in LineNumbers, a \in {"remove", "add_after"} }

RawBatches == UNION { [1..n -> RawSuggestions] : n \in 1..MaxBatch }

\* generate_suggestions gives every suggestion it keeps a status and a
\* modified_text
Tracked(raw) ==
  [line_number |-> raw.line_number, action |-> raw.action,
   modified_text |-> raw.suggested_text]

IsModify(raw) == raw.action = "modify"

\* every suggestion kept, whatever its action
keep_all(raw_suggestions) == [k \in DOMAIN raw_suggestions |-> Tracked(raw_suggestions[k])]

\* the end of generate_suggestions: non-modify suggestions are filtered out
only_modify(raw_suggestions) ==
  LET kept == SelectSeq(raw_suggestions, IsModify)
  IN [k \in DOMAIN kept |-> Tracked(kept[k])]

\* the non-empty selections of accepted suggestions, in their order
Accepted(all) ==
  { WithoutNone([k \in DOMAIN all |-> IF k \in chosen THEN Str(all[k]) ELSE None])
      : chosen \in (SUBSET DOMAIN all) \ {{}} }

\* generate_suggestions: the generator's suggestions, the non-modify ones
\* filtered out
GenerateSuggestions ==
  /\ pc = "init"
  /\ pc' = "generated"
  /\ \E raw_suggestions \in RawBatches :
       /\ suggestions' = only_modify(raw_suggestions)
       /\ filtered' = Len(raw_suggestions) - Len(only_modify(raw_suggestions))
  /\ UNCHANGED <<original, latex_content, tree, id_to_position, approved_suggestions,
                 next, modified_resume, changes_made, warnings, applied_spans, record_log,
                 final_latex, caller, lines, sorted_suggestions, processed_lines,
                 adapter_vars, review_vars>>

\* apply_changes_by_line is entered: the text is split, the batch sorted
EnterApplyByLine(batch, who, split) ==
  /\ pc' = "line_applying"
  /\ caller' = who
  /\ approved_suggestions' = batch
  /\ lines' = [k \in DOMAIN split |-> Str(split[k])]
  /\ sorted_suggestions' = sorted_by_line(batch)
  /\ next' = 1
  /\ changes_made' = <<>>
  /\ UNCHANGED <<original, latex_content, tree, id_to_position, modified_resume, warnings,
                 applied_spans, record_log, final_latex, suggestions, filtered,
                 processed_lines, adapter_vars, review_vars>>

\* step 3: Apply is pressed with at least one accepted suggestion
ApplyAccepted ==
  /\ pc = "generated"
  /\ \E split \in {Split[latex_content]} :
     \E approved \in Accepted(suggestions) : EnterApplyByLine(approved, "step3", split)

\* apply_changes_by_line called with a batch of its caller's own
CallApplyChangesByLine ==
  /\ pc = "init"
  /\ \E split \in {Split[latex_content]} :
     \E raw_suggestions \in RawBatches :
       EnterApplyByLine([k \in DOMAIN raw_suggestions |-> Tracked(raw_suggestions[k])],
                        "direct", split)

\* no line number taken as invalid
never_out_of_range(line_num, array) == FALSE

\* the validation of a 0-indexed line number against the line array
out_of_range(line_num, array) == line_num < 0 \/ line_num >= Len(array)

\* the body of one iteration of the loop of apply_changes_by_line: the line
\* array it leaves, the level of its log entry, whether it counts as a change
apply_line(array, suggestion) ==
  LET line_num == suggestion.line_number - 1
      suggested_text == Strip[suggestion.modified_text]
      Skipped == [lines |-> array, log |-> "warning", changed |-> FALSE]
  IN IF out_of_range(line_num, array) THEN Skipped
     ELSE IF suggestion.action = "modify"
     THEN IF suggested_text = "" THEN Skipped
          ELSE [lines |-> [array EXCEPT ![line_num + 1] = Str(suggested_text)],
                log |-> "success", changed |-> TRUE]
     ELSE IF suggestion.action = "remove"
     THEN [lines |-> [array EXCEPT ![line_num + 1] = None],
           log |-> "success", changed |-> TRUE]
     ELSE IF suggestion.action = "add_after" THEN Skipped
     ELSE [lines |-> array, log |-> "none", changed |-> FALSE]

\* one iteration of the loop of apply_changes_by_line
ApplyLine ==
  /\ pc = "line_applying"
  /\ next <= Len(sorted_suggestions)
  /\ \E suggestion \in {sorted_suggestions[next]} :
     \E result \in {apply_line(lines, suggestion)} :
        /\ next' = next + 1
        /\ processed_lines' = Append(processed_lines, suggestion.line_number)
        /\ lines' = result.lines
        /\ record_log' = Append(record_log, result.log)
        /\ warnings' = IF result.log = "warning"
                       THEN Append(warnings, suggestion.line_number) ELSE warnings
        /\ changes_made' = IF result.changed
                           THEN Append(changes_made, [action |-> suggestion.action,
                                                      line |-> suggestion.line_number])
                           ELSE changes_made
  /\ UNCHANGED <<pc, original, latex_content, tree, id_to_position, approved_suggestions,
                 modified_resume, applied_spans, final_latex, suggestions, filtered,
                 caller, sorted_suggestions, adapter_vars, review_vars>>

\* the loop is over: the None entries are dropped and the lines joined; step 3
\* trims a result that is not empty and keeps it as the final document
ReturnLines ==
  /\ pc = "line_applying"
  /\ next > Len(sorted_suggestions)
  /\ pc' = "line_returned"
  /\ \E joined \in {Join(WithoutNone(lines))} :
       /\ modified_resume' = joined
       /\ final_latex' = IF caller = "step3" /\ joined # ""
                         THEN trim_to_documentclass(joined) ELSE final_latex
  /\ UNCHANGED <<original, latex_content, tree, id_to_position, approved_suggestions,
                 next, changes_made, warnings, applied_spans, record_log, line_vars, adapter_vars, review_vars>>

LineNext ==
  GenerateSuggestions \/ ApplyAccepted \/ CallApplyChangesByLine \/ ApplyLine \/ ReturnLines

LineSpec == Init /\ [][LineNext]_vars

\* ------------------------------------------------------------------------
\* The suggestion adapter: what generate_suggestions makes of the reply of
\* the language model
\* ------------------------------------------------------------------------

\* the code fence of markdown: three backquotes, a character the strings of
\* this module cannot hold; the apostrophe stands for it in every reply
Fence == "'''"

\* re.sub('^' + marker + '\n?', '', content)
sub_leading(content, marker) ==
  IF ~StartsAt[content, marker, 0] THEN content
  ELSE IF StartsAt[content, "\n", Len(marker)] THEN SliceFrom[content, Len(marker) + 1]
  ELSE SliceFrom[content, Len(marker)]

\* the three substitutions that clean the markdown code fence; the last one
\* is re.sub('\n?' + Fence + '$', '', content), where $ is the end of the text
\* or the offset of a line feed that ends it
clean_markdown(content) ==
  LET sub_trailing(led) ==
        LET n == Len(led)
            end == IF StartsAt[led, Fence \o "\n", n - 4] THEN n - 1
                   ELSE IF StartsAt[led, Fence, n - 3] THEN n
                   ELSE -1
            start == IF StartsAt[led, "\n", end - 4] THEN end - 4 ELSE end - 3
        IN IF end < 0 THEN led ELSE Slice[led, 0, start] \o SliceFrom[led, end]
  IN sub_trailing(sub_leading(sub_leading(content, Fence \o "json"), Fence))

\* s.rfind(lit): the highest offset where lit occurs, or -1
RFind[s \in STRING, lit \in STRING] ==
  - Least[{ -k : k \in {h \in 0..(Len(s) - Len(lit)) : StartsAt[s, lit, h]} } \cup {1}]

\* the json array of the text: the text from the first [ on, when it does not
\* start with one, then up to the last ], when it does not end with one
extract_array(content) ==
  LET from_first_bracket(text) ==
        IF ~StartsAt[text, "[", 0] /\ Find[text, "[", 0] > 0
        THEN SliceFrom[text, Find[text, "[", 0]] ELSE text
      to_last_bracket(text) ==
        IF ~StartsAt[text, "]", Len(text) - 1] /\ RFind[text, "]"] > 0
        THEN Slice[text, 0, RFind[text, "]"] + 1] ELSE text
  IN to_last_bracket(from_first_bracket(content))

Digits == {"0", "1", "2", "3", "4", "5", "6", "7", "8", "9"}

\* the json decoder as a scanner: the offset after the piece of the grammar
\* that starts at offset i of s, or -1 when there is none.  The pieces are
\* "string" (i is past the opening quote), "value", "number" (i is past the
\* sign), "digits", "items" (i is at a value of an array) and "members" (i is
\* at the key of an object).  In a string, a backslash is followed by one of
\* the escapes of json or by u and four hexadecimal digits, and a strict
\* decoder refuses the control characters.
Json[s \in STRING, i \in Int, what \in STRING, strict \in BOOLEAN] ==
  IF i < 0 \/ i >= Len(s) THEN (IF what = "digits" /\ i = Len(s) THEN i ELSE -1)
  ELSE The({
    IF what = "string"
    THEN IF c = "\"" THEN i + 1
         ELSE IF c = "\\"
         THEN IF Slice[s, i + 1, i + 2] \in {"\"", "\\", "/", "b", "f", "n", "r", "t"}
         THEN Json[s, i + 2, "string", strict]
              ELSE IF /\ Slice[s, i + 1, i + 2] = "u"
                      /\ \A k \in 2..5 :
                           Slice[s, i + k, i + k + 1] \in
                             Digits \cup {"a", "b", "c", "d", "e", "f",
                                          "A", "B", "C", "D", "E", "F"}
              THEN Json[s, i + 6, "string", strict]
              ELSE -1
         ELSE IF strict /\ c \in {"\n", "\t", "\r"} THEN -1
         ELSE Json[s, i + 1, "string", strict]
    ELSE IF what = "digits"
    THEN IF c \in Digits THEN Json[s, i + 1, "digits", strict] ELSE i
    ELSE IF what = "number"
    THEN IF c = "0" THEN i + 1
         ELSE IF c \in Digits THEN Json[s, i + 1, "digits", strict]
         ELSE -1
    ELSE IF what = "value"
    THEN IF c = "\"" THEN Json[s, i + 1, "string", strict]
         ELSE IF c = "[" \/ c = "{"
         THEN The({ IF Slice[s, first, first + 1] = (IF c = "[" THEN "]" ELSE "}")
                    THEN first + 1
                    ELSE Json[s, first, IF c = "[" THEN "items" ELSE "members", strict]
                    : first \in {SkipSpace[s, i + 1]} })
         ELSE IF c = "-" THEN Json[s, i + 1, "number", strict]
         ELSE IF c \in Digits THEN Json[s, i, "number", strict]
         ELSE IF StartsAt[s, "true", i] \/ StartsAt[s, "null", i] THEN i + 4
         ELSE IF StartsAt[s, "false", i] THEN i + 5
         ELSE -1
    ELSE IF what = "items"
    THEN The({ IF value_end < 0 THEN -1
               ELSE The({ IF Slice[s, after, after + 1] = "]" THEN after + 1
                          ELSE IF Slice[s, after, after + 1] = ","
                          THEN Json[s, SkipSpace[s, after + 1], "items", strict]
                          ELSE -1
                          : after \in {SkipSpace[s, value_end]} })
               : value_end \in {Json[s, i, "value", strict]} })
    ELSE IF c # "\"" THEN -1
    ELSE The({ IF key_end < 0 THEN -1
               ELSE The({ IF Slice[s, colon, colon + 1] # ":" THEN -1
                          ELSE The({ IF value_end < 0 THEN -1
                                     ELSE The({ IF Slice[s, after, after + 1] = "}"
                                                THEN after + 1
                                                ELSE IF Slice[s, after, after + 1] = ","
                                                THEN Json[s, SkipSpace[s, after + 1],
                                                          "members", strict]
                                                ELSE -1
                                                : after \in {SkipSpace[s, value_end]} })
                                     : value_end \in {Json[s, SkipSpace[s, colon + 1],
                                                           "value", strict]} })
                          : colon \in {SkipSpace[s, key_end]} })
               : key_end \in {Json[s, i + 1, "string", strict]} })
    : c \in {SubSeq(s, i + 1, i + 1)} })

\* json.loads(content, strict=strict): one value, white space around it, and
\* nothing else.  It gives JSONDecodeError, or a value of the Python type that
\* the first character of the value tells.
json_loads(content, strict) ==
  LET JSONDecodeError == [raised |-> TRUE, type |-> "", empty |-> TRUE]
      TypeOf(c) ==
        IF c = "[" THEN "list" ELSE IF c = "{" THEN "dict" ELSE IF c = "\"" THEN "str"
        ELSE IF c \in {"t", "f"} THEN "bool" ELSE IF c = "n" THEN "NoneType" ELSE "int"
  IN
  The({ The({ IF value_end < 0 \/ SkipSpace[content, value_end] # Len(content)
              THEN JSONDecodeError
              ELSE [raised |-> FALSE,
                    type |-> TypeOf(Slice[content, first, first + 1]),
                    empty |-> SkipSpace[content, first + 1] = value_end - 1]
              : value_end \in {Json[content, first, "value", strict]} })
        : first \in {SkipSpace[content, 0]} })

\* content.replace('\\', '\\\\')
double_backslashes(content) == Replace[content, "\\", "\\\\"]

\* what generate_suggestions returns: None, or a list it decoded at the first
\* attempt or at the retry
NoSuggestions == [failed |-> TRUE, empty |-> TRUE, retried |-> FALSE]

ListOfSuggestions(decoded, retried) ==
  IF decoded.type # "list" THEN NoSuggestions
  ELSE [failed |-> FALSE, empty |-> decoded.empty, retried |-> retried]

\* generate_suggestions of app_v2_parser.py from the reply on
suggestions_by_id(reply) ==
  The({ IF decoded.raised THEN NoSuggestions ELSE ListOfSuggestions(decoded, FALSE)
        : decoded \in {json_loads(extract_array(Strip[clean_markdown(Strip[reply])]),
                                  TRUE)} })

\* generate_suggestions of app.py from the reply on, up to the validation of
\* the structure
suggestions_by_line(reply) ==
  The({ The({ IF ~decoded.raised THEN ListOfSuggestions(decoded, FALSE)
              ELSE The({ IF second.raised THEN NoSuggestions
                         ELSE ListOfSuggestions(second, TRUE)
                         : second \in {json_loads(double_backslashes(content), FALSE)} })
              : decoded \in {json_loads(content, FALSE)} })
        : content \in {extract_array(Strip[clean_markdown(reply)])} })

\* the replies of the language model: a json text, bare or in a code fence,
\* alone or with a sentence before and after it
Bodies ==
  { "[{\"action\": \"modify\", \"suggested_text\": \"Led QA\"}]",
    "[{\"action\": \"modify\", \"suggested_text\": \"Cut 5\\% costs\"}]",
    "[{\"suggested_text\": \"the \\\"best\\\" \\\\item\"}]",
    "[{\"suggested_text\": \"Led\nQA\"}]",
    "[{\"line_number\": 3, \"action\": \"modify\"}, {\"line_number\": -5}]",
    "[{\"action\": \"modify\"",
    "{\"action\": \"modify\"}",
    "[ ]" }

Replies ==
  LET Fenced(body) ==
        {body, Fence \o "json\n" \o body \o "\n" \o Fence,
         Fence \o "\n" \o body \o Fence \o "\n"}
  IN
  UNION { { before \o fenced \o after
              : before \in {"", " Here you go:\n"}, after \in {"", "\nDone."} }
          : fenced \in UNION { Fenced(body) : body \in Bodies } }

\* step 2 with a reply of the language model: generate_suggestions runs, and a
\* list that is not empty takes the session to step 3
Adapt(mode, reply, result) ==
  /\ response' = reply
  /\ adapted' = [mode |-> mode, failed |-> result.failed, empty |-> result.empty,
                 retried |-> result.retried]
  /\ pc' = IF result.failed \/ result.empty THEN pc ELSE "step3"
  /\ UNCHANGED <<original, latex_content, tree, id_to_position, approved_suggestions,
                 next, modified_resume, changes_made, warnings, applied_spans, record_log,
                 final_latex, line_vars, review_vars>>

\* identifier mode: the parser has parsed the document
AdaptById ==
  /\ pc = "parsed"
  /\ \E reply \in Replies : Adapt("id", reply, suggestions_by_id(reply))

\* line mode: there is no parser
AdaptByLine ==
  /\ pc = "init"
  /\ \E reply \in Replies : Adapt("line", reply, suggestions_by_line(reply))

AdapterNext == Parse \/ AdaptById \/ AdaptByLine

AdapterSpec == Init /\ [][AdapterNext]_vars

\* ------------------------------------------------------------------------
\* Step 3 of identifier mode: the review of the suggestions and Apply Changes
\* ------------------------------------------------------------------------

MaxReview == 3

MaxPresses == 2

\* the suggestions under review, on the bullets and skill categories of a
\* tree: step 2 has given each a status and a modified_text.  An element_id
\* that is a json array is held as the text of the array: generate_suggestions
\* strips the brackets off an element_id that is a string, so that no
\* identifier that is a string begins with a bracket.
ReviewSuggestions(t) ==
  LET Leaves == {node \in Nodes(t) : node.kind \in {"bullet", "category"}}
  IN { [element_id |-> node.id, action |-> "remove", modified_text |-> "",
        status |-> "pending"] : node \in Leaves }
     \cup { [element_id |-> node.id, action |-> "modify", modified_text |-> "Led QA",
             status |-> "pending"] : node \in Leaves }
     \cup { [element_id |-> "['md5:fabricated']", action |-> "modify",
             modified_text |-> "Led QA", status |-> "pending"] }

ReviewLists(t) == UNION { [1..n -> ReviewSuggestions(t)] : n \in 1..MaxReview }

\* what apply_changes_by_id has done after the first n records of a batch:
\* whether it has left its loop through the outer except, its modified_resume
\* and changes_made, the identifiers it has logged as not found, and the text
\* the parser holds.  Looking up an element_id that is a list raises TypeError.
Applying[content \in STRING, batch \in Seq(SuggestionRecords), n \in Nat] ==
  IF n = 0
  THEN [failed |-> FALSE, modified_resume |-> content, latex_content |-> content,
        changes_made |-> <<>>, warnings |-> <<>>]
  ELSE The({
    IF before.failed THEN before
    ELSE IF /\ StartsAt[batch[n].element_id, "[", 0]
            /\ batch[n].action \in {"add_to", "modify", "remove"}
    THEN [before EXCEPT !.failed = TRUE]
    ELSE The({ IF result.raised
               THEN [before EXCEPT !.warnings = Append(@, batch[n].element_id)]
               ELSE [before EXCEPT !.modified_resume = result.text,
                                   !.latex_content = result.text,
                                   !.changes_made = @ \o Change(batch[n])]
               : result \in {apply_suggestion(before.latex_content, id_to_position,
                                              before.modified_resume, batch[n])} })
    : before \in {Applying[content, batch, n - 1]} })

\* apply_changes_by_id on a parser that holds content
apply_changes_by_id(content, batch) == Applying[content, batch, Len(batch)]

\* step 3: the accepted suggestions in the format of apply_changes_by_id
approved_formatted(all) ==
  LET IsAccepted(s) == s.status = "accepted"
      approved == SelectSeq(all, IsAccepted)
  IN [k \in DOMAIN approved
        |-> [element_id |-> approved[k].element_id, action |-> approved[k].action,
             suggested_text |-> approved[k].modified_text]]

\* step 2: generate_suggestions has returned a list, every suggestion is
\* pending
StartReview ==
  /\ pc = "parsed"
  /\ pc' = "step3"
  /\ \E all \in ReviewLists(tree) : suggestions' = all
  /\ UNCHANGED <<original, latex_content, tree, id_to_position, approved_suggestions,
                 next, modified_resume, changes_made, warnings, applied_spans, record_log,
                 final_latex, filtered, caller, lines, sorted_suggestions,
                 processed_lines, adapter_vars, review_vars>>

\* a click on Accept or on Reject of one suggestion, the text area left as it
\* is shown
SetStatus(new_status) ==
  /\ pc = "step3"
  /\ \E i \in DOMAIN suggestions :
       /\ suggestions[i].status # new_status
       /\ suggestions' = [suggestions EXCEPT ![i].status = new_status]
  /\ UNCHANGED <<pc, original, latex_content, tree, id_to_position, approved_suggestions,
                 next, modified_resume, changes_made, warnings, applied_spans, record_log,
                 final_latex, filtered, caller, lines, sorted_suggestions,
                 processed_lines, adapter_vars, review_vars>>

Accept == SetStatus("accepted")

Reject == SetStatus("rejected")

\* Apply Changes pressed with at least one accepted suggestion: the whole of
\* apply_changes_by_id, and step 4 when it returned a document
PressApply ==
  /\ pc = "step3"
  /\ presses < MaxPresses
  /\ \E batch \in {approved_formatted(suggestions)} :
     \E done \in {apply_changes_by_id(latex_content, batch)} :
       /\ batch # <<>>
       /\ presses' = presses + 1
       /\ approved_suggestions' = batch
       /\ latex_content' = done.latex_content
       /\ changes_made' = done.changes_made
       /\ warnings' = done.warnings
       /\ modified_resume' = done.modified_resume
       /\ returned' = IF done.failed THEN None ELSE Str(done.modified_resume)
       /\ IF ~done.failed /\ done.modified_resume # ""
          THEN pc' = "step4" /\ final_latex' = done.modified_resume
          ELSE UNCHANGED <<pc, final_latex>>
  /\ UNCHANGED <<original, tree, id_to_position, next, applied_spans, record_log,
                 line_vars, adapter_vars>>

ReviewNext == Parse \/ StartReview \/ Accept \/ Reject \/ PressApply

ReviewSpec == Init /\ [][ReviewNext]_vars

\* ------------------------------------------------------------------------
\* Properties
\* ------------------------------------------------------------------------

\* the span the batch's record k resolves to in the Span Index
Resolved(k) == id_to_position[approved_suggestions[k].element_id]

Known(k) == approved_suggestions[k].element_id \in DOMAIN id_to_position

\* C1: in a batch whose records resolve to pairwise different start offsets,
\* the records are applied in strictly decreasing start-offset order: each
\* applied record's span starts before the span of the record applied just
\* before it, whatever the order of the batch.
C1_AppliedInDecreasingStartOrder ==
  (\A j, k \in DOMAIN approved_suggestions :
      Known(j) /\ Known(k) /\ j # k => Resolved(j)[1] # Resolved(k)[1])
  => \A k \in 2..Len(applied_spans) : applied_spans[k][1] < applied_spans[k - 1][1]

\* the reference of section 4.4 (i): the edits applied one at a time, each to
\* a parser constructed and parsed afresh on the text the previous one left
ReferenceUpTo[doc \in STRING, batch \in Seq(SuggestionRecords), n \in Nat] ==
  IF n = 0 THEN doc
  ELSE The({ The({ IF result.raised THEN before ELSE result.text
                   : result \in {apply_suggestion(before, parse(before).id_to_position,
                                                  before, batch[n])} })
             : before \in {ReferenceUpTo[doc, batch, n - 1]} })

Reference(doc, batch) == ReferenceUpTo[doc, batch, Len(batch)]

Disjoint(a, b) == a[2] <= b[1] \/ b[2] <= a[1]

\* the batch is modify and remove records on known nodes with pairwise
\* non-overlapping spans
NonOverlappingEdits ==
  /\ \A k \in DOMAIN approved_suggestions :
       Known(k) /\ approved_suggestions[k].action \in {"modify", "remove"}
  /\ \A j, k \in DOMAIN approved_suggestions : j # k => Disjoint(Resolved(j), Resolved(k))

\* C2: for a batch of modify and remove edits on pairwise non-overlapping
\* spans, the document apply_changes_by_id returns is the document the
\* reference produces, which re-parses before each edit.
C2_BatchEqualsReparsingReference ==
  pc = "returned" /\ NonOverlappingEdits
  => modified_resume = Reference(original, approved_suggestions)

\* the offsets of the occurrences of lit in s
Occurrences(s, lit) == {k \in 0..(Len(s) - Len(lit)) : StartsAt[s, lit, k]}

\* the closing markers can be matched one to one with earlier opening markers:
\* as many of each, and up to every closing one at least as many opening ones
Matched(opens, closes) ==
  /\ Cardinality(opens) = Cardinality(closes)
  /\ \A c \in closes :
       Cardinality({o \in opens : o < c}) >= Cardinality({d \in closes : d <= c})

\* every \resumeItemListStart has its later \resumeItemListEnd, and only those
ListsMatched(s) ==
  Matched(Occurrences(s, "\\resumeItemListStart"), Occurrences(s, "\\resumeItemListEnd"))

\* the braces of s that are not escaped by a backslash are balanced
BracesBalanced(s) ==
  Matched({k \in Occurrences(s, "{") : ~StartsAt[s, "\\", k - 1]},
          {k \in Occurrences(s, "}") : ~StartsAt[s, "\\", k - 1]})

WellFormed(s) == ListsMatched(s) /\ BracesBalanced(s)

\* C3: a batch of modify, remove and add_to records addressed to identifiers
\* the parser issued leaves a well-formed document well-formed: list-start
\* and list-end markers matched, braces balanced.
C3_EditsKeepSyntax ==
  /\ pc = "returned"
  /\ WellFormed(original)
  /\ \A k \in DOMAIN approved_suggestions : Known(k)
  => WellFormed(modified_resume)

\* the node an add_to may address: an entry that has a bullet list
EntryWithList(id) ==
  \E s \in DOMAIN tree : \E e \in DOMAIN Entries(tree[s]) :
     Entries(tree[s])[e].id = id /\ Bullets(Entries(tree[s])[e]) # <<>>

\* a record is valid: it addresses a node of the Span Index, an add_to an
\* entry with a bullet list
Valid(k) ==
  /\ Known(k)
  /\ approved_suggestions[k].action \in {"modify", "remove", "add_to"}
  /\ approved_suggestions[k].action = "add_to"
       => EntryWithList(approved_suggestions[k].element_id)

\* the batch holds exactly one record with an unknown identifier, the others
\* are valid
OneUnknown ==
  /\ Cardinality({k \in DOMAIN approved_suggestions : ~Known(k)}) = 1
  /\ \A k \in DOMAIN approved_suggestions : Known(k) => Valid(k)

\* the text apply_changes_by_id returns for a batch: the records applied in
\* turn to the text the previous one left, all through the same index, a
\* record that raises leaving the text as it was
AppliedUpTo[content \in STRING, batch \in Seq(SuggestionRecords), n \in Nat] ==
  IF n = 0 THEN content
  ELSE The({ The({ IF result.raised THEN before ELSE result.text
                   : result \in {apply_suggestion(before, id_to_position, before,
                                                  batch[n])} })
             : before \in {AppliedUpTo[content, batch, n - 1]} })

IsKnown(suggestion) == suggestion.element_id \in DOMAIN id_to_position

\* the batch without its records of unknown identifier
WithoutUnknown == SelectSeq(approved_suggestions, IsKnown)

\* C4: a batch with exactly one unknown identifier and otherwise valid records
\* does not fail, applies every other record as if the unknown one were not in
\* the batch, and reports exactly one skipped record.
C4_UnknownIdTolerated ==
  pc = "returned" /\ OneUnknown
  => /\ Len(warnings) = 1
     /\ Len(changes_made) = Len(approved_suggestions) - 1
     /\ modified_resume = AppliedUpTo[original, WithoutUnknown, Len(WithoutUnknown)]

\* C5: every Span Index entry lies within the text the parser holds.
C5_SpansWithinDocument ==
  \A id \in DOMAIN id_to_position :
     /\ 0 <= id_to_position[id][1]
     /\ id_to_position[id][1] <= id_to_position[id][2]
     /\ id_to_position[id][2] <= Len(latex_content)

\* the literal a node's macro invocation begins with
MacroOf(node) ==
  CASE node.kind = "bullet" -> "\\resumeItem{"
    [] node.kind = "category" -> "\\textbf{"
    [] node.kind = "entry" /\ node.type = "projects" -> "\\resumeProjectHeading"
    [] node.kind = "entry" /\ node.type # "projects" -> "\\resumeSubheading"
    [] node.kind = "section" -> "\\section{"

\* C6: after parse(), the span the Span Index holds for a node's identifier
\* is that node's own: it begins at the node's macro invocation, not at
\* another node's.
C6_SpanLocatesItsNode ==
  pc = "parsed"
  => \A node \in Nodes(tree) :
        node.id \in DOMAIN id_to_position
        => /\ id_to_position[node.id] = node.span
           /\ StartsAt[latex_content, MacroOf(node), id_to_position[node.id][1]]

\* C7: no two nodes of the tree of one parse carry the same identifier.
C7_IdentifiersUnique ==
  pc = "parsed"
  => \A m, n \in Nodes(tree) : m.path # n.path => m.id # n.id

\* C8: after parse(), the identifier of every node of the tree, sections
\* included, is a key of id_to_position.
C8_EveryNodeRegistered ==
  pc = "parsed" => \A node \in Nodes(tree) : node.id \in DOMAIN id_to_position

\* C9: the section ranges are in document order and contiguous, each starts
\* at its own header and ends where the next header starts, and the last one
\* ends at the body-end marker or the end of the text, no range ending before
\* it starts.
C9_SectionRangesContiguous ==
  pc = "parsed"
  => /\ \A i \in DOMAIN tree :
          /\ StartsAt[latex_content, "\\section{", tree[i].span[1]]
          /\ tree[i].span[1] <= tree[i].span[2]
     /\ \A i \in 1..(Len(tree) - 1) :
          /\ tree[i].span[1] < tree[i + 1].span[1]
          /\ tree[i].span[2] = tree[i + 1].span[1]
     /\ tree # <<>>
          => tree[Len(tree)].span[2]
               \in {Find[latex_content, "\\end{document}", 0], Len(latex_content)}

\* C10: every bullet, identified by its source span, is in the bullets of
\* exactly one entry, and every entry in exactly one section.
C10_BulletsOwnedByOneEntry ==
  pc = "parsed"
  => \A m, n \in Nodes(tree) :
        m.kind = n.kind /\ m.kind \in {"bullet", "entry"} /\ m.span = n.span
        => m.path = n.path

\* the pattern the entries of a section of this type are matched with
HeadingPattern(type) == IF type = "projects" THEN "project" ELSE "subheading"

\* where the content an entry may own ends: at its next sibling's heading, or
\* at the end of its section
EntryBoundary(sec, e) ==
  IF e < Len(Entries(sec)) THEN Entries(sec)[e + 1].span[1] ELSE sec.span[2]

\* the entry e of section sec has no list-start marker of its own
HasNoList(sec, e) ==
  \E heading \in {Match[HeadingPattern(sec.type), latex_content, Entries(sec)[e].span[1]]} :
  \E list_start \in {Find[latex_content, "\\resumeItemListStart", heading.end]} :
     list_start < 0 \/ list_start >= EntryBoundary(sec, e)

\* C11: an entry whose heading is not followed by a list-start marker before
\* the next heading or the end of its section has no bullets, and its span ends
\* where the heading's match ends, even when a later sibling has a list.
C11_EntryWithoutListIsEmpty ==
  pc = "parsed"
  => \A s \in DOMAIN tree : \A e \in DOMAIN Entries(tree[s]) :
        HasNoList(tree[s], e)
        => /\ Bullets(Entries(tree[s])[e]) = <<>>
           /\ Entries(tree[s])[e].span[2]
                = Match[HeadingPattern(tree[s].type), latex_content,
                        Entries(tree[s])[e].span[1]].end

KindsAt(id) ==
  {node.kind : node \in {n \in Nodes(tree) : n.id = id /\ n.span = id_to_position[id]}}

\* the batch is this one action on a known node of one of these kinds
BatchOn(n, action, kinds) ==
  /\ Len(approved_suggestions) = n
  /\ \A k \in DOMAIN approved_suggestions :
       /\ approved_suggestions[k] = approved_suggestions[1]
       /\ approved_suggestions[k].action = action
       /\ Known(k)
       /\ KindsAt(approved_suggestions[k].element_id) \cap kinds # {}

\* C13: modifying a bullet or a skill category to a text and at once modifying
\* it to the same text again gives the document of the single modify: one
\* wrapped copy of the text, nothing left over, nothing else changed.
C13_RepeatedModifyIsIdempotent ==
  pc = "returned" /\ BatchOn(2, "modify", {"bullet", "category"})
  => modified_resume = AppliedUpTo[original, approved_suggestions, 1]

\* the original with the span of the batch's first record replaced by text
WithTargetReplaced(text) ==
  Slice[original, 0, Resolved(1)[1]] \o text \o SliceFrom[original, Resolved(1)[2]]

\* the label of the skill category that carries this id
LabelOf(id) ==
  The({ Categories(tree[s])[c].category
        : <<s, c>> \in { <<s, c>> \in UNION { {s} \X DOMAIN Categories(tree[s])
                                                 : s \in DOMAIN tree }
                           : Categories(tree[s])[c].id = id } })

\* C14: a modify replaces exactly the target's invocation by the new text in
\* the wrapper of the target's own kind: \resumeItem{T} for a bullet,
\* \textbf{L}{: T} with its own label L for a skill category; an entry is
\* never rewritten as a bullet.
C14_ModifyKeepsWrapper ==
  pc = "returned" /\ BatchOn(1, "modify", {"bullet", "category", "entry"})
  => \E id \in {approved_suggestions[1].element_id} :
     \E text \in {escape_latex(approved_suggestions[1].suggested_text)} :
        /\ "bullet" \in KindsAt(id)
             => modified_resume = WithTargetReplaced("\\resumeItem{" \o text \o "}")
        /\ "category" \in KindsAt(id)
             => modified_resume
                  = WithTargetReplaced("\\textbf{" \o LabelOf(id) \o "}{: " \o text \o "}")
        /\ KindsAt(id) = {"entry"}
             => modified_resume # WithTargetReplaced("\\resumeItem{" \o text \o "}")

\* the offset of the list-end marker of the entry the batch's first record
\* addresses: the first one after the entry's heading
OwnListEnd == Find[original, "\\resumeItemListEnd", Resolved(1)[1]]

\* C15: add_to on an entry that has a bullet list succeeds and inserts one
\* \resumeItem{T} just before the entry's own list-end marker, all other text
\* unchanged.
C15_AddToInsertsBeforeListEnd ==
  /\ pc = "returned"
  /\ BatchOn(1, "add_to", {"entry"})
  /\ EntryWithList(approved_suggestions[1].element_id)
  => /\ warnings = <<>>
     /\ Len(changes_made) = 1
     /\ \E text \in {escape_latex(approved_suggestions[1].suggested_text)} :
          modified_resume
            = Slice[original, 0, OwnListEnd] \o "\n        \\resumeItem{" \o text \o "}"
                \o "\n      " \o SliceFrom[original, OwnListEnd]

\* C16: in both modes the final document, when it contains \documentclass,
\* starts with it.
C16_FinalStartsAtDocumentClass ==
  pc \in {"returned", "line_returned"} /\ caller # "direct"
    /\ Contains[final_latex, "\\documentclass"]
  => StartsAt[final_latex, "\\documentclass", 0]

\* C17: every record the loop has taken has ended in exactly one terminal
\* state, applied or explicitly skipped: a record with an action outside
\* modify, remove and add_to is explicitly skipped, a record of such an action
\* that is skipped has an unknown id, and an applied one a known id.
C17_RecordsEndInOneTerminalState ==
  pc \in {"applying", "returned"}
  => /\ Len(record_log) = next - 1
     /\ \A k \in DOMAIN record_log :
          /\ record_log[k] \in {"success", "warning"}
          /\ approved_suggestions[k].action \notin {"modify", "remove", "add_to"}
               => record_log[k] = "warning"
          /\ approved_suggestions[k].action \in {"modify", "remove", "add_to"}
               => (record_log[k] = "warning" <=> ~Known(k))

\* the records the loop has taken that changed line number n of the array
EditsOf(n) ==
  {k \in 1..(next - 1) : sorted_suggestions[k].line_number = n
                           /\ apply_line(lines, sorted_suggestions[k]).changed}

\* what an applied record leaves in the array at its line
Written(suggestion) ==
  IF suggestion.action = "remove" THEN None ELSE Str(Strip[suggestion.modified_text])

\* C18: apply_changes_by_line takes the records in descending line-number
\* order, and every applied record acts on the line that had its number in
\* the original document: the array keeps one entry per original line, an
\* entry no record addressed is the original line, the others hold what the
\* last record addressed to them wrote; the returned text is the join of them.
C18_LineEditsHitOriginalLines ==
  pc \in {"line_applying", "line_returned"}
  => \E split \in {Split[original]} :
       /\ \A k \in 2..Len(processed_lines) : processed_lines[k] <= processed_lines[k - 1]
       /\ processed_lines = [k \in 1..(next - 1) |-> sorted_suggestions[k].line_number]
       /\ Len(lines) = Len(split)
       /\ \A n \in DOMAIN lines :
            lines[n] = IF EditsOf(n) = {} THEN Str(split[n])
                       ELSE Written(sorted_suggestions[
                              CHOOSE k \in EditsOf(n) : \A j \in EditsOf(n) : j <= k])
       /\ pc = "line_returned" => modified_resume = Join(WithoutNone(lines))

\* line 5 was removed, then line 3 modified, the batch naming them the other
\* way round
C18_RemoveThenModifyLower ==
  /\ pc = "line_returned"
  /\ Len(approved_suggestions) = 2
  /\ approved_suggestions[1].line_number = 3 /\ approved_suggestions[1].action = "modify"
  /\ approved_suggestions[2].line_number = 5 /\ approved_suggestions[2].action = "remove"
  /\ processed_lines = <<5, 3>>
  /\ Len(changes_made) = 2

\* the records of line mode
LineRecords == [line_number : Int, action : STRING, modified_text : STRING]

\* the line array after the first n records of a sorted batch
LinesAfter[array \in Seq(Seq(STRING)), batch \in Seq(LineRecords), n \in Nat] ==
  IF n = 0 THEN array ELSE apply_line(LinesAfter[array, batch, n - 1], batch[n]).lines

\* the text apply_changes_by_line returns for a batch
apply_changes_by_line(latex_resume, batch) ==
  \* the split text, every line a string
  LET split == Split[latex_resume]
      array == [k \in DOMAIN split |-> Str(split[k])]
  IN Join(WithoutNone(LinesAfter[array, sorted_by_line(batch), Len(batch)]))

\* the record's 1-based line number is one of the document's
LineInRange(suggestion) ==
  suggestion.line_number >= 1 /\ suggestion.line_number <= Len(Split[original])

\* C19: a record whose line number is below 1 or above the number of lines is
\* skipped with a warning and the others are still applied: the text returned
\* is the one returned for the batch without the out-of-range records.
C19_OutOfRangeLineSkipped ==
  pc \in {"line_applying", "line_returned"}
  => /\ \A k \in 1..(next - 1) :
          ~LineInRange(sorted_suggestions[k])
          => /\ record_log[k] = "warning"
             /\ \E w \in DOMAIN warnings : warnings[w] = sorted_suggestions[k].line_number
     /\ pc = "line_returned"
          => modified_resume
               = apply_changes_by_line(original, SelectSeq(approved_suggestions, LineInRange))

\* a batch of one record out of range and one applied record has returned
C19_OneSkippedOneApplied ==
  /\ pc = "line_returned"
  /\ Len(approved_suggestions) = 2
  /\ ~LineInRange(approved_suggestions[1])
  /\ LineInRange(approved_suggestions[2])
  /\ Len(changes_made) = 1
  /\ modified_resume # original

\* C20: in line mode only modify gets through: generate_suggestions keeps the
\* modify suggestions alone, and a batch applied from step 3 returns a text of
\* as many lines as the original, each either the original line or the text
\* of a modify suggestion for that line; the engine never adds a line.
C20_LineModeOnlyModifies ==
  /\ \A k \in DOMAIN suggestions : suggestions[k].action = "modify"
  /\ pc = "line_returned"
       => \E before \in {Split[original]} : \E after \in {Split[modified_resume]} :
            /\ Len(after) <= Len(before)
            /\ caller = "step3"
                 => /\ Len(after) = Len(before)
                    /\ \A n \in DOMAIN after :
                         after[n] # before[n]
                         => \E k \in DOMAIN suggestions :
                              /\ suggestions[k].action = "modify"
                              /\ suggestions[k].line_number = n
                              /\ after[n] = Strip[suggestions[k].modified_text]

\* suggestions of other actions were filtered out and an accepted modify
\* suggestion has changed the document
C20_FilteredThenModified ==
  /\ pc = "line_returned"
  /\ caller = "step3"
  /\ filtered > 0
  /\ Len(changes_made) = 1
  /\ modified_resume # original
\* whether the recovery chain ends in failure: a parse, on failure one more
\* parse with the backslashes doubled, and the value of the first parse that
\* succeeds has to be a list
RecoveryFails(content, strict) ==
  LET first == json_loads(content, strict)
      second == json_loads(double_backslashes(content), strict)
  IN IF ~first.raised THEN first.type # "list"
     ELSE IF ~second.raised THEN second.type # "list"
     ELSE TRUE

\* C21: in both modes generate_suggestions cleans the reply, parses it, on
\* failure parses it once more with the backslashes doubled, and fails exactly
\* when both parses fail or the value is not a list; the session leaves step 2
\* only with a list.  The text parsed is the reply without its code fence,
\* cut to the outermost brackets.
C21_RecoveryChainInBothModes ==
  LET Cleaned ==
        extract_array(Strip[clean_markdown(IF adapted.mode = "id" THEN Strip[response]
                                           ELSE response)])
  IN adapted.mode # ""
     => /\ adapted.failed = RecoveryFails(Cleaned, adapted.mode = "id")
        /\ pc = "step3" => ~adapted.failed

\* C22: when a batch of identifier mode has been taken, the changes counted as
\* applied and the identifiers logged as skipped account for every record of
\* the batch (applied + skipped = size of the batch), the skipped identifiers
\* being those the Span Index does not hold, and the batch has not failed.
C22_ReportAccountsForEveryRecord ==
  pc = "returned"
  => /\ Len(changes_made) + Len(warnings) = Len(approved_suggestions)
     /\ \A k \in DOMAIN approved_suggestions :
          ~Known(k) => \E w \in DOMAIN warnings :
                          warnings[w] = approved_suggestions[k].element_id
     /\ modified_resume # ""

\* C23: once apply_changes_by_id has changed the text the parser holds, the
\* tree and the Span Index of the parser are those of that text: what parse()
\* builds from the current latex_content.
C23_IndexRebuiltWhenTextChanges ==
  latex_content # original
  => /\ id_to_position = parse(latex_content).id_to_position
     /\ tree = parse(latex_content).sections

\* the offset of the brace that closes the brace group entered depth levels
\* deep, scanning from offset i; -1 when there is none
ClosingBrace[s \in STRING, i \in Int, depth \in Nat] ==
  IF i >= Len(s) THEN -1
  ELSE IF StartsAt[s, "{", i] THEN ClosingBrace[s, i + 1, depth + 1]
  ELSE IF StartsAt[s, "}", i]
  THEN IF depth = 1 THEN i ELSE ClosingBrace[s, i + 1, depth - 1]
  ELSE ClosingBrace[s, i + 1, depth]

\* the bullet invocations of the document whose argument holds brace groups,
\* none of them with a group inside: the offsets of their backslash
NestedBullets ==
  { k \in Occurrences(original, "\\resumeItem{") :
      LET close == ClosingBrace[original, k + 12, 1]
          argument == Slice[original, k + 12, close]
      IN /\ close # -1
         /\ Contains[argument, "{"]
         /\ \A p \in Occurrences(argument, "{") :
               StartsAt[argument, "}", NextBrace[argument, p + 1]] }

BulletNodes == {node \in Nodes(tree) : node.kind = "bullet"}

\* C24: a bullet whose argument holds brace groups of depth one is parsed as
\* exactly one bullet node, and the span of that node runs from the backslash
\* of \resumeItem to the brace that closes its opening brace, not to the
\* first closing brace inside.
C24_BulletSpanToMatchingBrace ==
  pc = "parsed"
  => \A k \in NestedBullets :
        /\ Cardinality({node \in BulletNodes : node.span[1] = k}) = 1
        /\ \A node \in BulletNodes :
              node.span[1] = k
              => /\ node.id \in DOMAIN id_to_position
                 /\ id_to_position[node.id] = <<k, ClosingBrace[original, k + 12, 1] + 1>>
                 /\ id_to_position[node.id][2] > Find[original, "}", k] + 1

\* a document with such a bullet has been parsed
C24_NestedBulletParsed ==
  /\ pc = "parsed"
  /\ NestedBullets # {}
  /\ \E node \in BulletNodes :
        /\ node.span[1] \in NestedBullets
        /\ Contains[Slice[original, node.span[1], node.span[2]], "\\textbf{big} app}"]

\* C25: after a batch of line mode, the line a modify record names is the
\* replacement text of the record, character for character, its leading
\* indentation included.  The records taken are those that modify a line of
\* the document with a text that is not empty, no other record of the batch
\* being on that line and no record of the batch removing a line.
C25_ModifyWritesLiteralLine ==
  LET LoneModifies ==
        { k \in DOMAIN approved_suggestions :
            /\ approved_suggestions[k].action = "modify"
            /\ approved_suggestions[k].modified_text # ""
            /\ LineInRange(approved_suggestions[k])
            /\ \A j \in DOMAIN approved_suggestions :
                  /\ approved_suggestions[j].action # "remove"
                  /\ j # k => approved_suggestions[j].line_number
                                # approved_suggestions[k].line_number }
  IN pc = "line_returned"
     => \A k \in LoneModifies :
           Split[modified_resume][approved_suggestions[k].line_number]
             = approved_suggestions[k].modified_text

\* the spans the records of the batch resolve to in the uploaded document
TargetSpans == {Resolved(k) : k \in DOMAIN approved_suggestions}

\* the pieces of the uploaded document outside the target spans, in order
Frame ==
  LET TargetSpan(p) ==
        The({span \in TargetSpans :
               Cardinality({t \in TargetSpans : t[1] < span[1]}) = p - 1})
  IN
  [p \in 1..(Cardinality(TargetSpans) + 1)
     |-> Slice[original,
               IF p = 1 THEN 0 ELSE TargetSpan(p - 1)[2],
               IF p = Cardinality(TargetSpans) + 1 THEN Len(original)
               ELSE TargetSpan(p)[1]]]

\* text out holds, from offset from on, the pieces k.. in order, the last of
\* them at its end
Framed[out \in STRING, pieces \in Seq(STRING), k \in Nat, from \in Nat] ==
  IF k = Len(pieces)
  THEN /\ from <= Len(out) - Len(pieces[k])
       /\ SliceFrom[out, Len(out) - Len(pieces[k])] = pieces[k]
  ELSE \E at \in from..Len(out) :
          /\ Slice[out, at, at + Len(pieces[k])] = pieces[k]
          /\ at + Len(pieces[k]) <= Len(out)
          /\ Framed[out, pieces, k + 1, at + Len(pieces[k])]

\* C26: a batch of modify and remove records on distinct bullets and skill
\* categories leaves the text outside the spans of its targets in place: the
\* document returned begins with the text before the first target, ends with
\* the text after the last, holds the texts between targets in order, and
\* holds every bullet and category that is not a target as it was.
C26_TextOutsideTargetsPreserved ==
  LET DistinctLeafTargets ==
        /\ \A k \in DOMAIN approved_suggestions :
             /\ Known(k)
             /\ approved_suggestions[k].action \in {"modify", "remove"}
             /\ KindsAt(approved_suggestions[k].element_id) # {}
             /\ KindsAt(approved_suggestions[k].element_id) \subseteq {"bullet", "category"}
        /\ \A j, k \in DOMAIN approved_suggestions :
             j # k => /\ approved_suggestions[j].element_id
                          # approved_suggestions[k].element_id
                      /\ Disjoint(Resolved(j), Resolved(k))
      Untargeted ==
        { node \in Nodes(tree) :
            /\ node.kind \in {"bullet", "category"}
            /\ \A span \in TargetSpans : Disjoint(node.span, span) }
  IN pc = "returned" /\ DistinctLeafTargets
     => /\ Slice[modified_resume, 0, Len(Frame[1])] = Frame[1]
        /\ Framed[modified_resume, Frame, 2, Len(Frame[1])]
        /\ \A node \in Untargeted :
              Contains[modified_resume, Slice[original, node.span[1], node.span[2]]]

\* C27: when apply_changes_by_id returns None, the text the parser holds is
\* the text it held before the call.
C27_FailedApplyLeavesTextUnchanged ==
  [][presses' # presses /\ returned' = None => latex_content' = latex_content]_vars

\* C28: at every press of Apply the batch handed to apply_changes_by_id is
\* the suggestions accepted at that moment, in their order; when the press
\* ends in step 4, every change the document carries is that of a suggestion
\* accepted at that moment; and step 4 is entered only with the document the
\* engine returned stored as final_latex.  The changes the document carries
\* are those of this call and those an earlier call made before it failed.
C28_OnlyAcceptedReachTheDocument ==
  [][LET CarriedChanges ==
           {changes_made[k] : k \in DOMAIN changes_made}
           \cup {changes_made'[k] : k \in DOMAIN changes_made'}
     IN
     /\ presses' # presses
        => /\ approved_suggestions' = approved_formatted(suggestions)
           /\ pc' = "step4"
              => \A change \in CarriedChanges :
                    \E i \in DOMAIN suggestions :
                       /\ suggestions[i].status = "accepted"
                       /\ suggestions[i].element_id = change.element_id
                       /\ suggestions[i].action = change.action
     /\ pc' = "step4"
        => /\ presses' # presses
           /\ returned' # None
           /\ final_latex' = returned'[1]]_vars

\* the identifier is that of an entry and the other that of one of the
\* bullets of that entry
EntryAndOwnBullet(entry_id, bullet_id) ==
  \E entry \in Nodes(tree) : \E bullet \in Nodes(tree) :
     /\ entry.kind = "entry" /\ entry.id = entry_id
     /\ bullet.kind = "bullet" /\ bullet.id = bullet_id
     /\ Len(bullet.path) = 3
     /\ SubSeq(bullet.path, 1, 2) = entry.path

\* C29: after parse(), two spans of the Span Index are disjoint, or they are
\* those of an entry and of a bullet of that entry; the spans of two entries
\* are disjoint, so that the text removed with one entry holds no text of
\* another.
C29_SpansDisjointOrNested ==
  pc = "parsed"
  => /\ \A a, b \in DOMAIN id_to_position :
          a # b => \/ Disjoint(id_to_position[a], id_to_position[b])
                   \/ EntryAndOwnBullet(a, b)
                   \/ EntryAndOwnBullet(b, a)
     /\ \A first, second \in Nodes(tree) :
          /\ first.kind = "entry" /\ second.kind = "entry"
          /\ first.path # second.path
          /\ first.id \in DOMAIN id_to_position
          => Disjoint(id_to_position[first.id], second.span)

\* the replacements of the first n characters of text, one after the other:
\* for each character the replacement the dict of escape_latex lists, the
\* character itself when it lists none
EscapedOnce[text \in STRING, n \in Nat] ==
  LET Listed(c) ==
        CASE c = "%" -> "\\%"
          [] c = "$" -> "\\$"
          [] c = "#" -> "\\#"
          [] c = "_" -> "\\_"
          [] c = "&" -> "\\&"
          [] c = "{" -> "\\{"
          [] c = "}" -> "\\}"
          [] c = "~" -> "\\textasciitilde{}"
          [] c = "^" -> "\\textasciicircum{}"
          [] c = "\\" -> "\\textbackslash{}"
          [] OTHER -> c
  IN IF n = 0 THEN "" ELSE EscapedOnce[text, n - 1] \o Listed(SubSeq(text, n, n))

\* C30: for every text the loop of apply_changes_by_id has escaped, both
\* variants of escape_latex give the replacements of its characters one after
\* the other: no character is escaped twice.
C30_EscapedExactlyOnce ==
  pc \in {"applying", "returned"}
  => \A k \in 1..(next - 1) :
        LET text == approved_suggestions[k].suggested_text
        IN text # ""
           => /\ escape_latex(text) = EscapedOnce[text, Len(text)]
              /\ escape_latex_app(text) = EscapedOnce[text, Len(text)]

====
